---- MODULE Spec2Model ----
(***************************************************************************)
(* Model of the Gemini MCP server: the stdio server (src/index.ts), the    *)
(* HTTP tool routes and the WebSocket server (src/mcp-tools.js, which also  *)
(* holds mcp-server.js from line 214), the API routes (src/routes.js), the  *)
(* backend facade (src/gemini-api.js) and the error middleware (src/app.js).*)
(*                                                                         *)
(* A handler invocation is a record (inv[i]).  JavaScript runs a handler   *)
(* synchronously up to its next await, so one action is one such run: from *)
(* the arrival of a request, or from the completion of an awaited backend  *)
(* call / timer / stream read, to the next await or to the end.            *)
(***************************************************************************)
EXTENDS Integers, Sequences, FiniteSets, TLC

VARIABLES inv, ws, models, catalog, conns

vars == <<inv, ws, models, catalog, conns>>

(***************************************************************************)
(* Bounds of the model.                                                    *)
(***************************************************************************)
\* messages a client sends on one WebSocket connection
MaxWsMsgs == 2
\* chunks a backend stream yields
MaxChunks == 2

\* handler invocations that may be in flight at once
MaxInFlight == 2

\* the handler invocations that may be in flight
Slots == 1..MaxInFlight

(***************************************************************************)
(* JavaScript values of request fields: undefined, a string, an array.     *)
(***************************************************************************)
Undefined == [t |-> "undefined", s |-> "", a |-> <<>>]

Str(s) == [t |-> "string", s |-> s, a |-> <<>>]

Arr(a) == [t |-> "array", s |-> "", a |-> a]

\* a number, kept with its decimal text
Num(n) == [t |-> "number", s |-> ToString(n), a |-> <<>>]

\* !v
Falsy(v) == v.t = "undefined" \/ (v.t = "string" /\ v.s = "")

\* Array.isArray(v)
IsArray(v) == v.t = "array"

NoParams ==
  [model |-> Undefined, query |-> Undefined, conversation |-> Undefined,
   message |-> Undefined, prompt |-> Undefined, messages |-> Undefined]

\* "gpt-4" is in no enum of the tool schema
ModelVals == {Undefined, Str(""), Str("gemini-2.0-flash"), Str("gpt-4")}

TextVals == {Undefined, Str(""), Str("2+2"), Num(5)}

Histories ==
  {<<>>, <<[role |-> "user", content |-> "hi"]>>,
   <<[role |-> "user", content |-> "hi"], [role |-> "model", content |-> "yo"]>>}

ConvVals == {Undefined, Str("x")} \cup {Arr(h) : h \in Histories}

(***************************************************************************)
(* The backend (external): each call returns a text or fails with an error *)
(* that may carry an HTTP status.  status 0 stands for an error without a  *)
(* status field (undefined compares false with every number).              *)
(***************************************************************************)
Statuses == {0, 400, 429, 500, 599, 600}

Texts == {"4", "ok"}

Ok(text) == [ok |-> TRUE, status |-> 200, text |-> text, fc |-> "none"]

Fail(status) ==
  [ok |-> FALSE, status |-> status, text |-> "backend error " \o ToString(status),
   fc |-> "none"]

\* a call that was issued and has not returned
Pending == [ok |-> FALSE, status |-> -1, text |-> "", fc |-> "none"]

Outcomes == {Ok(t) : t \in Texts} \cup {Fail(s) : s \in Statuses}

(***************************************************************************)
(* A handler invocation.  calls: the backend calls issued, each with its   *)
(* outcome (Pending until it returns); contents: what the last call sent;  *)
(* delays: the backoff sleeps started; stream, chunks: the state of the    *)
(* backend stream and the chunks it has yielded; out: what the handler has *)
(* written or returned to its client; gone: the client has disconnected;   *)
(* conn: the WebSocket connection whose message the handler runs for;      *)
(* bearer: the bearer token the request carries; handle: the model handle  *)
(* that getModel returned last.                                            *)
(***************************************************************************)
Idle ==
  [pc |-> "idle", transport |-> "none", type |-> "none", tool |-> "none", id |-> 0,
   hasBody |-> FALSE, p |-> NoParams, retries |-> 0, delays |-> <<>>,
   calls |-> <<>>, contents |-> <<>>, stream |-> "none", chunks |-> <<>>,
   out |-> <<>>,
   headersSent |-> FALSE, ended |-> FALSE, destroyed |-> FALSE, gone |-> FALSE,
   malformed |-> FALSE, conn |-> "none", bearer |-> "none", handle |-> 0]

Request(transport, tool, id, hasBody, p) ==
  [Idle EXCEPT !.transport = transport, !.tool = tool, !.id = id,
               !.hasBody = hasBody, !.p = p]

\* a response: an HTTP envelope, a WebSocket message, an SSE write, an MCP result
Resp(type, id, status, success, text) ==
  [type |-> type, id |-> id, status |-> status, success |-> success, text |-> text]

\* the handler reaches "await <backend call>"
IssueCall(r, contents) ==
  [r EXCEPT !.calls = Append(@, Pending), !.contents = contents, !.pc = "awaiting"]

\* the awaited backend call settles with outcome o
Returned(r, o) == [r EXCEPT !.calls[Len(r.calls)] = o]

\* the handler writes its last response and ends
Finish(r, resp) == [r EXCEPT !.out = Append(@, resp), !.pc = "done"]

\* no handler is in flight
Quiet == \A i \in Slots : inv[i].pc = "idle"

\* a lone invocation takes the first slot
Serial(i) == \A j \in Slots : i <= j

\* the clients run one exchange at a time: a stdio tool call, an HTTP
\* request, or a WebSocket session
CanAccept(i) == Quiet /\ ws.state = "none" /\ Serial(i)

(***************************************************************************)
(* src/index.ts: class GeminiAPI and the stdio tools.                      *)
(***************************************************************************)
\* mutant: one attempt more
maxRetriesOneMore == 3 + 1

maxRetries == 3

baseDelay == 1000

\* the factor 0.5 + Math.random() * 0.5, in per mille.  Math.random() is a
\* double in [0,1); for its largest value, 1 - 2^-53, the sum 1 - 2^-54 is
\* no double and rounds (ties to even) to 1.0, so the factor ranges over
\* [0.5, 1.0], both ends included
JitterFactors == {500, 750, 1000}

Pow2(n) == IF n = 0 THEN 1 ELSE IF n = 1 THEN 2 ELSE IF n = 2 THEN 4 ELSE 8

\* mutant: the 429 test is dropped
IsRetryableOnly5xx(e) == e.status >= 500 /\ e.status < 600

\* mutant: every 4xx is retried too
IsRetryableFrom400(e) == e.status >= 400 /\ e.status < 600

\* mutant: everything but a 4xx other than 429 is retried
IsRetryableUnlessClientError(e) == e.status = 429 \/ ~(e.status >= 400 /\ e.status < 500)

\* only retry on 429 (rate limit) or 5xx (server error)
IsRetryable(e) == e.status = 429 \/ (e.status >= 500 /\ e.status < 600)

\* mutant: no exponential growth, every delay is baseDelay times the factor
DelayWithoutGrowth(retries, f) == (baseDelay * f) \div 1000

\* mutant: the exponent is the value of retries before "retries++"
DelayBeforeIncrement(retries, f) == (baseDelay * Pow2(retries - 1) * f) \div 1000

\* baseDelay * Math.pow(2, retries) * (0.5 + Math.random() * 0.5)
Delay(retries, f) == (baseDelay * Pow2(retries) * f) \div 1000

UserTurn(text) == [role |-> "user", text |-> text]

\* history.map(msg => ({role: msg.role === "user" ? "user" : "model", parts: [{text: msg.content}]}))
FormatHistoryStdio(h) ==
  [k \in 1..Len(h) |->
     [role |-> IF h[k].role = "user" THEN "user" ELSE "model", text |-> h[k].content]]

\* the body of the while loop up to "await model.generateContent(...)"
GenerateContentAttempt(r) == IssueCall(r, <<UserTurn(r.p.query.s)>>)

\* "while (retries < maxRetries)": another attempt, or the throw after the loop,
\* which the outer catch wraps
GenerateContentLoop(r) ==
  IF r.retries < maxRetries
    THEN [k |-> "await", r |-> GenerateContentAttempt(r), text |-> ""]
    ELSE [k |-> "throw", r |-> r,
          text |-> "Failed to get response from Gemini: " \o "Maximum retries exceeded"]

\* mutant: retries is one counter that all invocations in flight share
RECURSIVE SharedRetries(_)
SharedRetries(S) ==
  IF S = {} THEN 0
  ELSE LET j == CHOOSE x \in S : TRUE IN inv[j].retries + SharedRetries(S \ {j})

GenerateContentSettleShared(r, o, f) ==
  IF o.ok THEN [k |-> "return", r |-> r, text |-> o.text]
  ELSE IF IsRetryable(o)
    THEN LET r1 == [r EXCEPT !.retries = @ + 1] IN
         IF SharedRetries(Slots) + 1 < maxRetries
           THEN [k |-> "sleep",
                 r |-> [r1 EXCEPT !.delays = Append(@, Delay(r1.retries, f)),
                                  !.pc = "sleeping"],
                 text |-> ""]
           ELSE [k |-> "throw", r |-> r1,
                 text |-> "Failed to get response from Gemini: " \o o.text]
    ELSE [k |-> "throw", r |-> r,
          text |-> "Failed to get response from Gemini: " \o o.text]

\* mutant: the inner catch sleeps after the last attempt too
GenerateContentSettleSleepsLast(r, o, f) ==
  IF o.ok THEN [k |-> "return", r |-> r, text |-> o.text]
  ELSE IF IsRetryable(o)
    THEN LET r1 == [r EXCEPT !.retries = @ + 1] IN
         [k |-> "sleep",
          r |-> [r1 EXCEPT !.delays = Append(@, Delay(r1.retries, f)),
                           !.pc = "sleeping"],
          text |-> ""]
    ELSE [k |-> "throw", r |-> r,
          text |-> "Failed to get response from Gemini: " \o o.text]

\* the awaited call settled with o: the return, or the inner catch (sleep and
\* continue, or throw) and the outer catch that wraps what is thrown
GenerateContentSettle(r, o, f) ==
  IF o.ok THEN [k |-> "return", r |-> r, text |-> o.text]
  ELSE IF IsRetryable(o)
    THEN LET r1 == [r EXCEPT !.retries = @ + 1] IN
         IF r1.retries < maxRetries
           THEN [k |-> "sleep",
                 r |-> [r1 EXCEPT !.delays = Append(@, Delay(r1.retries, f)),
                                  !.pc = "sleeping"],
                 text |-> ""]
           ELSE [k |-> "throw", r |-> r1,
                 text |-> "Failed to get response from Gemini: " \o o.text]
    ELSE [k |-> "throw", r |-> r,
          text |-> "Failed to get response from Gemini: " \o o.text]

\* a stdio tool handler's result: {content: [{type: "text", text}]}
Content(text) == Resp("content", 0, 0, TRUE, text)

\* mutant: the handler has no catch, what GeminiAPI throws rejects it
StdioToolResultUncaught(res) ==
  IF res.k = "return" THEN Finish(res.r, Content(res.text))
  ELSE IF res.k = "throw" THEN [res.r EXCEPT !.pc = "done"]
  ELSE res.r

\* the try/catch of a stdio tool handler around the awaited GeminiAPI call
StdioToolResult(res) ==
  IF res.k = "return" THEN Finish(res.r, Content(res.text))
  ELSE IF res.k = "throw" THEN Finish(res.r, Content("Error: " \o res.text))
  ELSE res.r

\* GeminiAPI.chatWithHistory up to "await model.generateContent(...)"
ChatWithHistoryStdio(r) ==
  IssueCall(r, FormatHistoryStdio(r.p.conversation.a) \o <<UserTurn(r.p.message.s)>>)

ChatWithHistoryStdioSettle(r, o) ==
  IF o.ok THEN [k |-> "return", r |-> r, text |-> o.text]
  ELSE [k |-> "throw", r |-> r, text |-> "Failed to chat with Gemini: " \o o.text]

\* GeminiAPI.callFunction up to "await chat.sendMessage(prompt)"
CallFunction(r) == IssueCall(r, <<UserTurn(r.p.prompt.s)>>)

\* mutant: string arguments that do not parse are dropped from the descriptor
CallFunctionSettleDropsBadArgs(r, o) ==
  IF ~o.ok
    THEN [k |-> "throw", r |-> r,
          text |-> "Failed to call function with Gemini: " \o o.text]
  ELSE IF o.fc = "none"
    THEN [k |-> "return", r |-> r, text |-> "{\"text\":\"" \o o.text \o "\"}"]
  ELSE IF o.fc = "badstring"
    THEN [k |-> "return", r |-> r, text |-> "{\"functionName\":\"f\"}"]
  ELSE [k |-> "return", r |-> r,
        text |-> "{\"functionName\":\"f\",\"functionArgs\":{}}"]

\* JSON.stringify of what callFunction returns; JSON.parse of unparsable
\* string arguments throws
CallFunctionSettle(r, o) ==
  IF ~o.ok
    THEN [k |-> "throw", r |-> r,
          text |-> "Failed to call function with Gemini: " \o o.text]
  ELSE IF o.fc = "none"
    THEN [k |-> "return", r |-> r, text |-> "{\"text\":\"" \o o.text \o "\"}"]
  ELSE IF o.fc = "badstring"
    THEN [k |-> "throw", r |-> r,
          text |-> "Failed to call function with Gemini: " \o "Unexpected token"]
  ELSE [k |-> "return", r |-> r,
        text |-> "{\"functionName\":\"f\",\"functionArgs\":{}}"]

\* the backend elects to call a function: args an object, a JSON string, a bad string
FunctionOutcomes ==
  {[Ok("") EXCEPT !.fc = c] : c \in {"object", "string", "badstring"}}

StdioModels == {Str("gemini-2.0-flash")}

\* mutant: a handle is created at every call
getModelAlwaysCreates(ms, name) == Append(ms, name)

\* models is the Map in the order of its set calls: a handle is the place of
\* its creation.  getModel creates a handle for a name the Map does not have
getModel(ms, name) ==
  IF \E k \in 1..Len(ms) : ms[k] = name THEN ms ELSE Append(ms, name)

\* this.models.get(modelName): the handle set last for the name
HandleOf(ms, name) ==
  CHOOSE k \in 1..Len(ms) : ms[k] = name /\ \A j \in (k + 1)..Len(ms) : ms[j] # name

\* "const model = this.getModel(modelName)": the handle the handler holds
WithModel(r, ms) == [r EXCEPT !.handle = HandleOf(getModel(ms, r.p.model.s), r.p.model.s)]

StdioArgs(tool) ==
  IF tool = "ask_gemini"
    THEN {[NoParams EXCEPT !.model = m, !.query = Str(q)] :
            m \in StdioModels, q \in {"", "2+2"}}
  ELSE IF tool = "chat_with_gemini"
    THEN {[NoParams EXCEPT !.model = m, !.conversation = Arr(h), !.message = Str("bye")] :
            m \in StdioModels, h \in Histories}
  ELSE {[NoParams EXCEPT !.model = m, !.prompt = Str("2+2")] : m \in StdioModels}

StdioTools == {"ask_gemini", "chat_with_gemini", "gemini_function_call"}

\* the SDK has validated the arguments against the tool's zod shape and calls
\* the handler, which runs to its first await
StdioToolCall(i) ==
  /\ CanAccept(i)
  /\ \E tool \in StdioTools : \E p \in StdioArgs(tool) :
       LET r == WithModel(Request("stdio", tool, 0, TRUE, p), models) IN
       /\ inv' = [inv EXCEPT ![i] =
            IF tool = "ask_gemini" THEN StdioToolResult(GenerateContentLoop(r))
            ELSE IF tool = "chat_with_gemini" THEN ChatWithHistoryStdio(r)
            ELSE CallFunction(r)]
       /\ models' = getModel(models, p.model.s)
  /\ UNCHANGED <<ws, catalog, conns>>

\* the place of a request in the order of arrival of those the server
\* holds: the latest (Retire moves the later ones up)
ArrivalId == 1 + Cardinality({k \in Slots : inv[k].pc # "idle"})

\* the models the concurrent calls name
ConcModels == {Str("gemini-2.0-flash"), Str("gemini-2.5-pro-exp-03-25")}

\* a further ask_gemini call, for a model of ms and with request id id,
\* arrives while others are in flight: the SDK starts each handler as its
\* request arrives
AskConcurrent(i, ms, id) ==
  /\ inv[i].pc = "idle"
  /\ ws.state = "none"
  /\ \A j \in Slots : inv[j].pc = "idle" \/ inv[j].transport = "stdio"
  /\ \A j \in Slots : j < i => inv[j].pc # "idle"
  /\ \E m \in ms :
       LET r == WithModel(Request("stdio", "ask_gemini", id, TRUE,
                                  [NoParams EXCEPT !.model = m, !.query = Str("2+2")]),
                          models)
       IN
       /\ inv' = [inv EXCEPT ![i] = StdioToolResult(GenerateContentLoop(r))]
       /\ models' = getModel(models, m.s)
  /\ UNCHANGED <<ws, catalog, conns>>

StdioAskConcurrent(i) == AskConcurrent(i, StdioModels, ArrivalId)

\* concurrent calls that name different models
StdioAskOfModels(i) == AskConcurrent(i, ConcModels, 0)

\* the awaited model.generateContent of ask_gemini settles with an outcome of
\* outs; a sleep that follows takes its jitter factor from factors
AskReturn(i, outs, factors) ==
  /\ inv[i].pc = "awaiting" /\ inv[i].transport = "stdio" /\ inv[i].tool = "ask_gemini"
  /\ \E o \in outs : \E f \in factors :
       inv' = [inv EXCEPT ![i] =
                 StdioToolResult(GenerateContentSettle(Returned(inv[i], o), o, f))]
  /\ UNCHANGED <<ws, models, catalog, conns>>

StdioAskReturn(i) == AskReturn(i, Outcomes, JitterFactors)

\* the outcomes met with several calls in flight: a text, a failure that is
\* not retried, two that are
ConcOutcomes == {Ok("4"), Fail(400), Fail(429), Fail(500)}

ConcFactors == {750}

StdioAskReturnConcurrent(i) == AskReturn(i, ConcOutcomes, ConcFactors)

\* the outcomes met by the calls that name different models
CacheOutcomes == {Ok("4"), Fail(400), Fail(500)}

StdioAskReturnOfModels(i) == AskReturn(i, CacheOutcomes, ConcFactors)

\* setTimeout(resolve, delay) fires: "continue", the loop test, the next attempt
BackoffTimer(i) ==
  /\ inv[i].pc = "sleeping"
  /\ IF inv[i].retries < maxRetries
       THEN /\ inv' = [inv EXCEPT ![i] =
                         StdioToolResult(GenerateContentLoop(WithModel(inv[i], models)))]
            /\ models' = getModel(models, inv[i].p.model.s)
       ELSE /\ inv' = [inv EXCEPT ![i] = StdioToolResult(GenerateContentLoop(inv[i]))]
            /\ UNCHANGED models
  /\ UNCHANGED <<ws, catalog, conns>>

StdioChatReturn(i) ==
  /\ inv[i].pc = "awaiting" /\ inv[i].transport = "stdio"
  /\ inv[i].tool = "chat_with_gemini"
  /\ \E o \in Outcomes :
       inv' = [inv EXCEPT ![i] =
                 StdioToolResult(ChatWithHistoryStdioSettle(Returned(inv[i], o), o))]
  /\ UNCHANGED <<ws, models, catalog, conns>>

StdioFunctionReturn(i) ==
  /\ inv[i].pc = "awaiting" /\ inv[i].transport = "stdio"
  /\ inv[i].tool = "gemini_function_call"
  /\ \E o \in Outcomes \cup FunctionOutcomes :
       inv' = [inv EXCEPT ![i] =
                 StdioToolResult(CallFunctionSettle(Returned(inv[i], o), o))]
  /\ UNCHANGED <<ws, models, catalog, conns>>

(***************************************************************************)
(* src/gemini-api.js: the facade of the HTTP and WebSocket servers.        *)
(* No function of it retries.                                             *)
(***************************************************************************)
\* contents: prompt, passed as it came (a string, or undefined)
PromptContents(v) == <<[role |-> "prompt " \o v.t, text |-> v.s]>>

\* generateContent / generateContentStream up to the awaited backend call
GenerateContent(r, prompt) == IssueCall(r, PromptContents(prompt))

\* history.map(msg => ({role: msg.role, parts: [{text: msg.content}]}))
FormatHistory(h) == [k \in 1..Len(h) |-> [role |-> h[k].role, text |-> h[k].content]]

\* mutant: the new turn is pushed onto the caller's array, which is then sent
ChatWithHistoryPushes(r, history, message) ==
  IF ~IsArray(history)
    THEN [k |-> "throw", r |-> r, text |-> "history.push is not a function"]
    ELSE LET pushed == Append(history.a, [role |-> "user", content |-> message.s]) IN
         [k |-> "await",
          r |-> IssueCall([r EXCEPT !.p.conversation = Arr(pushed)],
                          [k \in 1..Len(pushed) |->
                             [role |-> pushed[k].role, text |-> pushed[k].content]]),
          text |-> ""]

\* chatWithHistory: history.map throws on a history that is no array, before
\* any backend call; the catch rethrows the error as it is
ChatWithHistory(r, history, message) ==
  IF ~IsArray(history)
    THEN [k |-> "throw", r |-> r,
          text |-> IF history.t = "undefined"
                     THEN "Cannot read properties of undefined (reading 'map')"
                     ELSE "history.map is not a function"]
    ELSE [k |-> "await",
          r |-> IssueCall(r, FormatHistory(history.a) \o <<UserTurn(message.s)>>),
          text |-> ""]

\* mutant: the response object is passed on as JSON, not its text
FacadeSettleWholeResponse(r, o) ==
  IF o.ok THEN [k |-> "return", r |-> r, text |-> "{\"text\":\"" \o o.text \o "\"}"]
  ELSE [k |-> "throw", r |-> r, text |-> o.text]

\* the awaited call settled: the response, or the error rethrown as it is
FacadeSettle(r, o) ==
  IF o.ok THEN [k |-> "return", r |-> r, text |-> o.text]
  ELSE [k |-> "throw", r |-> r, text |-> o.text]

(***************************************************************************)
(* src/mcp-tools.js: askGemini, chatWithGemini, the tool schema and the    *)
(* HTTP tool routes; with them the body parser and the error middleware of *)
(* src/app.js.                                                             *)
(***************************************************************************)
\* the catch of askGemini / chatWithGemini wraps what the facade throws
Wrap(res, prefix) == IF res.k = "throw" THEN [res EXCEPT !.text = prefix \o @] ELSE res

askGemini(r) ==
  [k |-> "await", r |-> GenerateContent(r, r.p.query), text |-> ""]

askGeminiSettle(r, o) == Wrap(FacadeSettle(r, o), "Failed to get response from Gemini: ")

chatWithGemini(r) ==
  Wrap(ChatWithHistory(r, r.p.conversation, r.p.message), "Failed to chat with Gemini: ")

chatWithGeminiSettle(r, o) == Wrap(FacadeSettle(r, o), "Failed to chat with Gemini: ")

\* mutant: chat_with_gemini is left out of the schema
toolDefinitionsAskOnly ==
  <<[name |-> "ask_gemini", required |-> {"model", "query"},
     types |-> [model |-> "string", query |-> "string", conversation |-> "none",
                message |-> "none"],
     enum |-> {"gemini-2.0-flash", "gemini-2.0-flash-lite",
               "gemini-2.0-flash-thinking-exp-01-21",
               "gemini-2.0-flash-exp-image-generation", "gemini-2.5-pro-exp-03-25"}]>>

\* the tool schema: names in definition order, with the required parameters,
\* the declared type of each parameter and the enum of model
toolDefinitions ==
  <<[name |-> "ask_gemini", required |-> {"model", "query"},
     types |-> [model |-> "string", query |-> "string", conversation |-> "none",
                message |-> "none"],
     enum |-> {"gemini-2.0-flash", "gemini-2.0-flash-lite",
               "gemini-2.0-flash-thinking-exp-01-21",
               "gemini-2.0-flash-exp-image-generation", "gemini-2.5-pro-exp-03-25"}],
    [name |-> "chat_with_gemini", required |-> {"model", "conversation", "message"},
     types |-> [model |-> "string", query |-> "none", conversation |-> "array",
                message |-> "string"],
     enum |-> {"gemini-pro", "gemini-ultra", "gemini-2.0-flash", "gemini-2.0-flash-lite",
               "gemini-2.0-flash-thinking-exp-01-21", "gemini-2.5-pro-exp-03-25"}]>>

\* Object.keys(tools): the names in the order of definition
NamesOf(tools) == [k \in 1..Len(tools) |-> tools[k].name]

ToolNames == NamesOf(toolDefinitions)

Catalog == {ToolNames[k] : k \in 1..Len(ToolNames)}

\* res.status(status).json({success, result | error | text})
HttpJson(r, status, success, text) ==
  [Finish(r, Resp("json", 0, status, success, text))
     EXCEPT !.headersSent = TRUE, !.ended = TRUE]

\* mutant: the failed res.json after the headers leaves the socket open
ErrorMiddlewareLeavesOpen(r, message) ==
  IF r.headersSent
    THEN [r EXCEPT !.pc = "done"]
    ELSE HttpJson(r, 500, FALSE, message)

\* src/app.js: app.use((err, req, res, next) => res.status(500).json(...)): once the
\* headers are sent res.json throws and nothing is written; the framework's
\* final handler then destroys the socket
ErrorMiddleware(r, message) ==
  IF r.headersSent
    THEN [r EXCEPT !.pc = "done", !.destroyed = TRUE]
    ELSE HttpJson(r, 500, FALSE, message)

\* src/app.js: app.use(express.json()) cannot parse the body; its error goes to
\* the error middleware and no route runs
JsonBodyError(r) ==
  ErrorMiddleware([r EXCEPT !.malformed = TRUE], "Unexpected token } in JSON at position 1")

\* the bodies a client may send: none, a JSON object, text that is no JSON
Bodies == {"none", "json", "malformed"}

\* the try/catch of a tool route around its awaited call
HttpToolResult(res) ==
  IF res.k = "return" THEN HttpJson(res.r, 200, TRUE, res.text)
  ELSE IF res.k = "throw" THEN HttpJson(res.r, 500, FALSE, res.text)
  ELSE res.r

\* destructuring req.body throws when no body was parsed (express 5 leaves
\* req.body undefined then); the route's catch answers 500
NoBody(r) ==
  [k |-> "throw", r |-> r,
   text |-> "Cannot destructure property 'model' of 'req.body' as it is undefined."]

\* app.post('/tools/ask_gemini')
PostAskGemini(r) ==
  IF ~r.hasBody THEN HttpToolResult(NoBody(r))
  ELSE IF Falsy(r.p.model) \/ Falsy(r.p.query)
    THEN HttpJson(r, 400, FALSE, "Model and query are required")
  ELSE HttpToolResult(askGemini(r))

\* app.post('/tools/chat_with_gemini')
PostChatWithGemini(r) ==
  IF ~r.hasBody THEN HttpToolResult(NoBody(r))
  ELSE IF Falsy(r.p.model) \/ Falsy(r.p.message) \/ ~IsArray(r.p.conversation)
    THEN HttpJson(r, 400, FALSE,
                  "Model, valid conversation array, and message are required")
  ELSE HttpToolResult(chatWithGemini(r))

\* no route is registered for any other POST /tools/{name}: the framework
\* answers 404
PostNoRoute(r) ==
  [Finish(r, Resp("notfound", 0, 404, FALSE, "Cannot POST /tools/" \o r.tool))
     EXCEPT !.headersSent = TRUE, !.ended = TRUE]

setupMcpTools(r) ==
  IF r.tool = "ask_gemini" THEN PostAskGemini(r)
  ELSE IF r.tool = "chat_with_gemini" THEN PostChatWithGemini(r)
  ELSE PostNoRoute(r)

\* tool names a client may send: the catalog's, one only the stdio server
\* registers, one nobody registers
ToolInputs == {"ask_gemini", "chat_with_gemini", "gemini_function_call", "nope"}

\* the parameters (body) of a request for a tool
ToolParams(tool) ==
  IF tool = "ask_gemini"
    THEN {[NoParams EXCEPT !.model = m, !.query = q] : m \in ModelVals, q \in TextVals}
  ELSE IF tool = "chat_with_gemini"
    THEN {[NoParams EXCEPT !.model = m, !.conversation = c, !.message = q] :
            m \in ModelVals, c \in ConvVals, q \in TextVals}
  ELSE {[NoParams EXCEPT !.model = m] : m \in ModelVals}

HttpToolRequest(i) ==
  /\ CanAccept(i)
  /\ \E tool \in ToolInputs : \E body \in Bodies :
     \E p \in (IF body = "json" THEN ToolParams(tool) ELSE {NoParams}) :
       LET r == Request("http", tool, 0, body = "json", p) IN
       inv' = [inv EXCEPT ![i] =
                 IF body = "malformed" THEN JsonBodyError(r) ELSE setupMcpTools(r)]
  /\ UNCHANGED <<ws, models, catalog, conns>>

HttpToolReturn(i) ==
  /\ inv[i].pc = "awaiting" /\ inv[i].transport = "http"
  /\ \E o \in Outcomes :
       LET r == Returned(inv[i], o) IN
       inv' = [inv EXCEPT ![i] =
                 HttpToolResult(IF r.tool = "ask_gemini" THEN askGeminiSettle(r, o)
                                ELSE chatWithGeminiSettle(r, o))]
  /\ UNCHANGED <<ws, models, catalog, conns>>

(***************************************************************************)
(* src/mcp-tools.js from line 214 (mcp-server.js): the WebSocket server.   *)
(***************************************************************************)
JoinNames(names) ==
  IF Len(names) = 0 THEN ""
  ELSE IF Len(names) = 1 THEN names[1]
  ELSE names[1] \o "," \o names[2]

\* mutant: serialising the catalog empties it
SerializedAndEmptied(c) == [c EXCEPT !.tools = <<>>]

\* JSON.stringify and res.json read the object they serialise and write
\* nothing to it: the catalog after it was serialised
Serialized(c) == c

\* mutant: the capability list is left empty
serverMetadataNoTools == Resp("server_info", 0, 0, TRUE, "")

\* capabilities: {tools: Object.keys(toolDefinitions)}
serverMetadata == Resp("server_info", 0, 0, TRUE, JoinNames(ToolNames))

\* mutant: the final else runs ask_gemini instead of throwing "Unknown tool"
executeToolRequestAnyTool(r) ==
  IF r.tool = "chat_with_gemini" /\ r.hasBody THEN chatWithGemini(r)
  ELSE IF r.hasBody THEN askGemini(r)
  ELSE [k |-> "throw", r |-> r,
        text |-> "Cannot destructure property 'model' of 'parameters' as it is undefined."]

\* executeToolRequest up to its first await, or to its end: the tool is
\* chosen by name; nothing checks the parameters against the schema, and
\* destructuring parameters that are undefined throws
executeToolRequest(r) ==
  IF r.tool = "ask_gemini"
    THEN IF ~r.hasBody
           THEN [k |-> "throw", r |-> r,
                 text |-> "Cannot destructure property 'model' of 'parameters' as it is undefined."]
           ELSE askGemini(r)
  ELSE IF r.tool = "chat_with_gemini"
    THEN IF ~r.hasBody
           THEN [k |-> "throw", r |-> r,
                 text |-> "Cannot destructure property 'model' of 'parameters' as it is undefined."]
           ELSE chatWithGemini(r)
  ELSE [k |-> "throw", r |-> r, text |-> "Unknown tool: " \o r.tool]

executeToolRequestSettle(r, o) ==
  IF r.tool = "ask_gemini" THEN askGeminiSettle(r, o) ELSE chatWithGeminiSettle(r, o)

\* mutant: the request id is not copied into the response
ToolResponseNoId(res) ==
  IF res.k = "return" THEN Resp("tool_result", 0, 0, TRUE, res.text)
  ELSE Resp("tool_error", 0, 0, FALSE, res.text)

\* what executeToolRequest returns, which the message handler sends
ToolResponse(res) ==
  IF res.k = "return" THEN Resp("tool_result", res.r.id, 0, TRUE, res.text)
  ELSE Resp("tool_error", res.r.id, 0, FALSE, res.text)

\* inbound frames: text that is no JSON, the JSON null, JSON that is no
\* object (a number, a string), and objects of type get_tools, tool_call or
\* any other type
WsMsgTypes == {"malformed", "null", "nonobject", "get_tools", "tool_call", "other"}

\* wss.on('connection'): the server sends server_info
WsConnect ==
  /\ ws.state = "none"
  /\ Quiet
  /\ ws' = [state |-> "open", n |-> 0, out |-> <<catalog.server>>]
  /\ catalog' = Serialized(catalog)
  /\ UNCHANGED <<inv, models, conns>>

\* mutant: the default case answers with the catalog too
WsReplyToolsByDefault(type) ==
  IF type \in {"malformed", "null"}
    THEN Resp("error", 0, 0, FALSE, "Error processing message")
  ELSE Resp("tools", 0, 0, TRUE, JoinNames(ToolNames))

\* mutant: the catch answers nothing that tells a failure
WsReplyCatchSaysOk(type) ==
  IF type \in {"malformed", "null"}
    THEN Resp("tools", 0, 0, TRUE, "")
  ELSE IF type = "get_tools" THEN Resp("tools", 0, 0, TRUE, JoinNames(ToolNames))
  ELSE IF type = "nonobject"
    THEN Resp("error", 0, 0, FALSE, "Unknown message type: undefined")
  ELSE Resp("error", 0, 0, FALSE, "Unknown message type: " \o type)

\* the reply of the message handler to a frame that is no tool_call:
\* JSON.parse throws on text that is no JSON and message.type throws on
\* null, which the catch answers; message.type of a number or a string is
\* undefined, which the default case answers
WsReply(type) ==
  IF type \in {"malformed", "null"}
    THEN Resp("error", 0, 0, FALSE, "Error processing message")
  ELSE IF type = "get_tools"
    THEN Resp("tools", 0, 0, TRUE, JoinNames(NamesOf(catalog.tools)))
  ELSE IF type = "nonobject"
    THEN Resp("error", 0, 0, FALSE, "Unknown message type: undefined")
  ELSE Resp("error", 0, 0, FALSE, "Unknown message type: " \o type)

\* ws.on('message') up to its first await, or to its end
WsMessage(i) ==
  /\ ws.state = "open"
  /\ ws.n < MaxWsMsgs
  /\ Quiet
  /\ Serial(i)
  /\ \E type \in WsMsgTypes :
     \E tool \in (IF type = "tool_call" THEN ToolInputs ELSE {"none"}) :
     \E hasBody \in (IF type = "tool_call" THEN BOOLEAN ELSE {FALSE}) :
     \E p \in (IF hasBody THEN ToolParams(tool) ELSE {NoParams}) :
       LET r == [Request("ws", tool, ws.n + 1, hasBody, p) EXCEPT !.type = type]
           res == executeToolRequest(r)
           reply == IF type = "tool_call" THEN ToolResponse(res) ELSE WsReply(type)
       IN
       /\ IF type = "tool_call" /\ res.k = "await"
            THEN /\ inv' = [inv EXCEPT ![i] = res.r]
                 /\ ws' = [ws EXCEPT !.n = @ + 1]
            ELSE /\ inv' = [inv EXCEPT ![i] = Finish(r, reply)]
                 /\ ws' = [ws EXCEPT !.n = @ + 1, !.out = Append(@, reply)]
       /\ catalog' = IF type = "get_tools" THEN Serialized(catalog) ELSE catalog
  /\ UNCHANGED <<models, conns>>

\* the awaited backend call of a tool_call settles; the handler sends the
\* result (a send on a closed socket is dropped by the ws library)
WsToolReturn(i) ==
  /\ inv[i].pc = "awaiting" /\ inv[i].transport = "ws"
  /\ \E o \in Outcomes :
       LET r == Returned(inv[i], o)
           reply == ToolResponse(executeToolRequestSettle(r, o))
       IN
       /\ inv' = [inv EXCEPT ![i] = Finish(r, reply)]
       /\ ws' = [ws EXCEPT !.out = Append(@, reply)]
  /\ UNCHANGED <<models, catalog, conns>>

\* ws.on('close'): the handler only logs
WsClose ==
  /\ ws.state = "open"
  /\ ws' = [ws EXCEPT !.state = "closed"]
  /\ UNCHANGED <<inv, models, catalog, conns>>

\* the closed socket is dropped once no handler holds it
WsDiscard ==
  /\ ws.state = "closed"
  /\ Quiet
  /\ ws' = [state |-> "none", n |-> 0, out |-> <<>>]
  /\ UNCHANGED <<inv, models, catalog, conns>>

\* the GET endpoints of the servers: /tools answers toolDefinitions, /info
\* answers serverMetadata, /health answers {status: 'ok'}
GetPaths == {"/tools", "/info", "/health"}

\* mutant: GET /tools lists the names from the last definition to the first
GetReplyReversed(path) ==
  IF path = "/tools"
    THEN JoinNames([k \in 1..Len(catalog.tools) |->
                      catalog.tools[Len(catalog.tools) + 1 - k].name])
  ELSE IF path = "/info" THEN catalog.server.text
  ELSE "ok"

\* what res.json is given: the names stand for the definitions they key
GetReply(path) ==
  IF path = "/tools" THEN JoinNames(NamesOf(catalog.tools))
  ELSE IF path = "/info" THEN catalog.server.text
  ELSE "ok"

\* app.get(path, (req, res) => res.json(...)): the handler has no await
HttpGetHandler(path) ==
  HttpJson(Request("get", path, 0, FALSE, NoParams), 200, TRUE, GetReply(path))

HttpGet(i) ==
  /\ CanAccept(i)
  /\ \E path \in GetPaths :
       /\ inv' = [inv EXCEPT ![i] = HttpGetHandler(path)]
       /\ catalog' = IF path = "/health" THEN catalog ELSE Serialized(catalog)
  /\ UNCHANGED <<ws, models, conns>>

\* the lowest slot that holds no handler
FreeSlot(i) == inv[i].pc = "idle" /\ \A j \in Slots : j < i => inv[j].pc # "idle"

\* a GET /tools arrives while other handlers are in flight
HttpGetConcurrent(i) ==
  /\ FreeSlot(i)
  /\ ws.state = "none"
  /\ inv' = [inv EXCEPT ![i] = HttpGetHandler("/tools")]
  /\ catalog' = Serialized(catalog)
  /\ UNCHANGED <<ws, models, conns>>

(***************************************************************************)
(* The WebSocket server with several connections: wss.on('connection')     *)
(* runs once for each, and the handlers it registers close over the ws of  *)
(* their connection.  A message is handled as it arrives, whatever other   *)
(* handlers are awaiting the backend.                                      *)
(***************************************************************************)
Conns == {"a", "b"}

NoConn == [state |-> "none", n |-> 0, out |-> <<>>]

\* the frames a client sends in this setting, and what the backend answers
ConnTypes == {"get_tools", "tool_call", "malformed"}

ConnTools == {"ask_gemini", "gpt"}

ConnOutcomes == {Ok("4"), Fail(500)}

\* the id the client of connection c gives its k-th message
MsgId(c, k) == (IF c = "a" THEN 10 ELSE 20) + k

\* the secret the operator has set in the environment
MCP_AUTH_SECRET == "your_secret_key_here"

\* the Authorization header of the upgrade request of connection c: the
\* client of a sends the secret as bearer token, the client of b sends no
\* token; the connection callback takes the socket only and reads no header
BearerOf(c) == IF c = "a" THEN MCP_AUTH_SECRET ELSE "none"

\* the messages the clients have sent, on all connections together
ConnMsgs == conns["a"].n + conns["b"].n

ConnOpen(c) ==
  /\ ws.state = "none"
  /\ conns[c].state = "none"
  /\ conns' = [conns EXCEPT ![c] = [state |-> "open", n |-> 0,
                                     out |-> <<catalog.server>>]]
  /\ catalog' = Serialized(catalog)
  /\ UNCHANGED <<inv, ws, models>>

\* mutant: the reply goes to the connection that sent a message last
ReplySocketLatest(r) ==
  IF \E c \in Conns : conns[c].n > conns[r.conn].n
    THEN CHOOSE c \in Conns : conns[c].n > conns[r.conn].n
    ELSE r.conn

\* the socket a handler sends on: the ws of the connection callback it was
\* registered in
ReplySocket(r) == r.conn

\* mutant: a message waits until no tool_call of its connection is pending
ConnAcceptsWhenSettled(c) ==
  /\ conns[c].state = "open"
  /\ ConnMsgs < MaxWsMsgs
  /\ \A j \in Slots : ~(inv[j].pc = "awaiting" /\ inv[j].conn = c)

\* the 'message' event is emitted for each frame of an open connection as
\* it arrives: the async handler of an earlier frame is not awaited
ConnAccepts(c) ==
  /\ conns[c].state = "open"
  /\ ConnMsgs < MaxWsMsgs

\* ws.on('message') of connection c up to its first await, or to its end
ConnMessage(c, i) ==
  /\ ConnAccepts(c)
  /\ FreeSlot(i)
  /\ \E type \in ConnTypes :
     \E tool \in (IF type = "tool_call" THEN ConnTools ELSE {"none"}) :
       LET r == [Request("ws", tool, MsgId(c, conns[c].n + 1), TRUE,
                         [NoParams EXCEPT !.model = Str("gemini-2.0-flash"),
                                          !.query = Str("2+2")])
                   EXCEPT !.type = type, !.conn = c, !.bearer = BearerOf(c)]
           res == executeToolRequest(r)
           reply == IF type = "tool_call" THEN ToolResponse(res) ELSE WsReply(type)
           counted == [conns EXCEPT ![c].n = @ + 1]
       IN
       /\ IF type = "tool_call" /\ res.k = "await"
            THEN /\ inv' = [inv EXCEPT ![i] = res.r]
                 /\ conns' = counted
            ELSE /\ inv' = [inv EXCEPT ![i] = Finish(r, reply)]
                 /\ conns' = [counted EXCEPT ![ReplySocket(r)].out = Append(@, reply)]
       /\ catalog' = IF type = "get_tools" THEN Serialized(catalog) ELSE catalog
  /\ UNCHANGED <<ws, models>>

\* the awaited backend call of a tool_call settles; the handler sends the
\* result on the socket of its connection
ConnToolReturn(i) ==
  /\ inv[i].pc = "awaiting" /\ inv[i].transport = "ws" /\ inv[i].conn \in Conns
  /\ \E o \in ConnOutcomes :
       LET r == Returned(inv[i], o)
           reply == ToolResponse(executeToolRequestSettle(r, o))
       IN
       /\ inv' = [inv EXCEPT ![i] = Finish(r, reply)]
       /\ conns' = [conns EXCEPT ![ReplySocket(r)].out = Append(@, reply)]
  /\ UNCHANGED <<ws, models, catalog>>

\* ws.on('close') of connection c: the handler only logs
ConnClose(c) ==
  /\ conns[c].state = "open"
  /\ conns' = [conns EXCEPT ![c].state = "closed"]
  /\ UNCHANGED <<inv, ws, models, catalog>>

(***************************************************************************)
(* src/routes.js: the API routes.                                          *)
(***************************************************************************)
\* the try/catch of an API route: res.json of the result, or next(error)
ApiResult(res) ==
  IF res.k = "return" THEN HttpJson(res.r, 200, TRUE, res.text)
  ELSE IF res.k = "throw" THEN ErrorMiddleware(res.r, res.text)
  ELSE res.r

\* router.post('/generate')
PostGenerate(r) ==
  IF ~r.hasBody THEN ApiResult(NoBody(r))
  ELSE IF Falsy(r.p.model) \/ Falsy(r.p.prompt)
    THEN HttpJson(r, 400, FALSE, "Model and prompt are required")
  ELSE GenerateContent(r, r.p.prompt)

\* router.post('/generate/stream') up to "await generateContentStream(...)"
PostGenerateStream(r) ==
  IF ~r.hasBody THEN ApiResult(NoBody(r))
  ELSE IF Falsy(r.p.model) \/ Falsy(r.p.prompt)
    THEN HttpJson(r, 400, FALSE, "Model and prompt are required")
  ELSE GenerateContent(r, r.p.prompt)

\* mutant: the whole array is the history, the last message included
PostChatKeepsLast(r) ==
  IF ~r.hasBody THEN ApiResult(NoBody(r))
  ELSE IF Falsy(r.p.model) \/ Falsy(r.p.messages) \/ ~IsArray(r.p.messages)
    THEN HttpJson(r, 400, FALSE, "Model and valid messages array are required")
  ELSE IF Len(r.p.messages.a) = 0
    THEN ApiResult([k |-> "throw", r |-> r,
                    text |-> "Cannot read properties of undefined (reading 'content')"])
  ELSE LET n == Len(r.p.messages.a) IN
       ApiResult(ChatWithHistory(r, r.p.messages, Str(r.p.messages.a[n].content)))

\* mutant: the validation refuses an empty array
PostChatRefusesEmpty(r) ==
  IF ~r.hasBody THEN ApiResult(NoBody(r))
  ELSE IF Falsy(r.p.model) \/ Falsy(r.p.messages) \/ ~IsArray(r.p.messages)
          \/ Len(r.p.messages.a) = 0
    THEN HttpJson(r, 400, FALSE, "Model and valid messages array are required")
  ELSE LET n == Len(r.p.messages.a) IN
       ApiResult(ChatWithHistory(r, Arr(SubSeq(r.p.messages.a, 1, n - 1)),
                                 Str(r.p.messages.a[n].content)))

\* router.post('/chat'): messages[messages.length - 1].content throws on an
\* empty array
PostChat(r) ==
  IF ~r.hasBody THEN ApiResult(NoBody(r))
  ELSE IF Falsy(r.p.model) \/ Falsy(r.p.messages) \/ ~IsArray(r.p.messages)
    THEN HttpJson(r, 400, FALSE, "Model and valid messages array are required")
  ELSE IF Len(r.p.messages.a) = 0
    THEN ApiResult([k |-> "throw", r |-> r,
                    text |-> "Cannot read properties of undefined (reading 'content')"])
  ELSE LET n == Len(r.p.messages.a) IN
       ApiResult(ChatWithHistory(r, Arr(SubSeq(r.p.messages.a, 1, n - 1)),
                                 Str(r.p.messages.a[n].content)))

ApiRoutes == {"generate", "generate/stream", "chat"}

ApiParams(route) ==
  IF route = "chat"
    THEN {[NoParams EXCEPT !.model = m, !.messages = c] : m \in ModelVals, c \in ConvVals}
    ELSE {[NoParams EXCEPT !.model = m, !.prompt = q] : m \in ModelVals, q \in TextVals}

ApiRequest(i) ==
  /\ CanAccept(i)
  /\ \E route \in ApiRoutes : \E body \in Bodies :
     \E p \in (IF body = "json" THEN ApiParams(route) ELSE {NoParams}) :
       LET r == Request("api", route, 0, body = "json", p) IN
       inv' = [inv EXCEPT ![i] =
                 IF body = "malformed" THEN JsonBodyError(r)
                 ELSE IF route = "generate" THEN PostGenerate(r)
                 ELSE IF route = "generate/stream" THEN PostGenerateStream(r)
                 ELSE PostChat(r)]
  /\ UNCHANGED <<ws, models, catalog, conns>>

\* the awaited call of /generate or /chat settles
ApiReturn(i) ==
  /\ inv[i].pc = "awaiting" /\ inv[i].transport = "api"
  /\ inv[i].tool \in {"generate", "chat"}
  /\ \E o \in Outcomes :
       inv' = [inv EXCEPT ![i] = ApiResult(FacadeSettle(Returned(inv[i], o), o))]
  /\ UNCHANGED <<ws, models, catalog, conns>>

\* one SSE event: data: <json>, a blank line
SseEvent(json) == "data: " \o json \o "\n\n"

\* res.write(`data: ${JSON.stringify({ text: chunkText })}\n\n`)
WriteChunk(r, c) ==
  [r EXCEPT !.chunks = Append(@, c),
            !.out = Append(@, Resp("write", 0, 200, TRUE,
                                   SseEvent("{\"text\":\"" \o c \o "\"}"))),
            !.headersSent = TRUE]

\* mutant: the response is ended without the done event
WriteDoneMissing(r) == [r EXCEPT !.headersSent = TRUE, !.ended = TRUE, !.pc = "done"]

\* res.write(`data: ${JSON.stringify({ done: true })}\n\n`); return res.end()
WriteDone(r) ==
  [r EXCEPT !.out = Append(@, Resp("write", 0, 200, TRUE, SseEvent("{\"done\":true}"))),
            !.headersSent = TRUE, !.ended = TRUE, !.pc = "done"]

ChunkTexts == {"a", "b"}

\* mutant: the event-stream headers are sent as soon as they are set
SetStreamHeadersFlushed(r) ==
  [r EXCEPT !.pc = "streaming", !.stream = "open", !.headersSent = TRUE]

\* res.setHeader('Content-Type', 'text/event-stream') and the two others:
\* the headers are kept for the first write, nothing is sent yet
SetStreamHeaders(r) == [r EXCEPT !.pc = "streaming", !.stream = "open"]

\* "await generateContentStream(...)" settles: the headers are set and the
\* loop awaits the first chunk, or the error goes to next(error)
StreamOpenReturn(i) ==
  /\ inv[i].pc = "awaiting" /\ inv[i].transport = "api"
  /\ inv[i].tool = "generate/stream"
  /\ \E o \in Outcomes :
       LET r == Returned(inv[i], o) IN
       inv' = [inv EXCEPT ![i] =
                 IF o.ok THEN SetStreamHeaders(r)
                 ELSE ErrorMiddleware(r, o.text)]
  /\ UNCHANGED <<ws, models, catalog, conns>>

\* the stream yields a chunk
StreamChunk(i) ==
  /\ inv[i].pc = "streaming"
  /\ Len(inv[i].chunks) < MaxChunks
  /\ \E c \in ChunkTexts : inv' = [inv EXCEPT ![i] = WriteChunk(inv[i], c)]
  /\ UNCHANGED <<ws, models, catalog, conns>>

\* the stream is exhausted
StreamEnd(i) ==
  /\ inv[i].pc = "streaming"
  /\ inv' = [inv EXCEPT ![i] = WriteDone([inv[i] EXCEPT !.stream = "end"])]
  /\ UNCHANGED <<ws, models, catalog, conns>>

\* the stream throws
StreamFail(i) ==
  /\ inv[i].pc = "streaming"
  /\ \E s \in Statuses :
       inv' = [inv EXCEPT ![i] =
                 ErrorMiddleware([inv[i] EXCEPT !.stream = "error"], Fail(s).text)]
  /\ UNCHANGED <<ws, models, catalog, conns>>

\* the client of an HTTP or stdio exchange goes away; no handler listens for it
ClientDisconnect(i) ==
  /\ inv[i].pc \notin {"idle", "done"}
  /\ inv[i].transport # "ws"
  /\ ~inv[i].gone
  /\ inv' = [inv EXCEPT ![i].gone = TRUE]
  /\ UNCHANGED <<ws, models, catalog, conns>>

\* the exchange is over and the invocation's record is dropped; the stdio
\* requests that arrived after it move up one place in the order of arrival
Retire(i) ==
  /\ inv[i].pc = "done"
  /\ inv' = [j \in Slots |->
              IF j = i THEN Idle
              ELSE IF /\ inv[i].transport = "stdio" /\ inv[j].transport = "stdio"
                      /\ 0 < inv[i].id /\ inv[i].id < inv[j].id
                THEN [inv[j] EXCEPT !.id = @ - 1]
              ELSE inv[j]]
  /\ UNCHANGED <<ws, models, catalog, conns>>

Init ==
  /\ inv = [i \in Slots |-> Idle]
  /\ ws = [state |-> "none", n |-> 0, out |-> <<>>]
  /\ models = <<>>
  /\ catalog = [tools |-> toolDefinitions, server |-> serverMetadata]
  /\ conns = [c \in Conns |-> NoConn]

Next ==
  \/ WsConnect
  \/ WsClose
  \/ WsDiscard
  \/ \E i \in Slots :
       \/ StdioToolCall(i)
       \/ StdioAskReturn(i)
       \/ BackoffTimer(i)
       \/ StdioChatReturn(i)
       \/ StdioFunctionReturn(i)
       \/ HttpToolRequest(i)
       \/ HttpToolReturn(i)
       \/ WsMessage(i)
       \/ WsToolReturn(i)
       \/ ApiRequest(i)
       \/ ApiReturn(i)
       \/ StreamOpenReturn(i)
       \/ StreamChunk(i)
       \/ StreamEnd(i)
       \/ StreamFail(i)
       \/ ClientDisconnect(i)
       \/ HttpGet(i)
       \/ Retire(i)

Spec == Init /\ [][Next]_vars

\* Every awaited promise settles and every timer fires: the backend answers
\* each call, a backend stream ends or throws, setTimeout calls back.  Nothing
\* obliges a client to send a request.
Settles(i) ==
  /\ WF_vars(StdioAskReturn(i))
  /\ WF_vars(BackoffTimer(i))
  /\ WF_vars(StdioChatReturn(i))
  /\ WF_vars(StdioFunctionReturn(i))
  /\ WF_vars(HttpToolReturn(i))
  /\ WF_vars(WsToolReturn(i))
  /\ WF_vars(ApiReturn(i))
  /\ WF_vars(StreamOpenReturn(i))
  /\ WF_vars(StreamEnd(i) \/ StreamFail(i))

\* the stdio server with several ask_gemini calls in flight
ConcNext ==
  \E i \in Slots :
    \/ StdioAskConcurrent(i)
    \/ StdioAskReturnConcurrent(i)
    \/ BackoffTimer(i)
    \/ Retire(i)

ConcSpec == Init /\ [][ConcNext]_vars

\* the stdio server with ask_gemini calls for several models in flight
CacheNext ==
  \E i \in Slots :
    \/ StdioAskOfModels(i)
    \/ StdioAskReturnOfModels(i)
    \/ BackoffTimer(i)
    \/ Retire(i)

CacheSpec == Init /\ [][CacheNext]_vars

\* the same, where every backend call returns and every timer fires
FairCacheSpec ==
  CacheSpec /\ \A i \in Slots : WF_vars(StdioAskReturnOfModels(i)) /\ WF_vars(BackoffTimer(i))

\* the WebSocket server with several connections and handlers in flight
McpServerNext ==
  \/ \E c \in Conns :
       \/ ConnOpen(c)
       \/ ConnClose(c)
       \/ \E i \in Slots : ConnMessage(c, i)
  \/ \E i \in Slots :
       \/ ConnToolReturn(i)
       \/ HttpGetConcurrent(i)
       \/ Retire(i)

McpServerSpec == Init /\ [][McpServerNext]_vars

\* the API server alone
ApiNext ==
  \E i \in Slots :
    \/ ApiRequest(i)
    \/ ApiReturn(i)
    \/ StreamOpenReturn(i)
    \/ StreamChunk(i)
    \/ StreamEnd(i)
    \/ StreamFail(i)
    \/ ClientDisconnect(i)
    \/ Retire(i)

FairApiSpec == Init /\ [][ApiNext]_vars /\ \A i \in Slots : Settles(i)

(***************************************************************************)
(* The claims.                                                             *)
(***************************************************************************)
\* a tool invocation of the HTTP / WebSocket server: a tool_call message, or
\* a POST /tools/{name} whose body, if any, was parsed
IsToolInvocation(r) ==
  (r.transport = "ws" /\ r.type = "tool_call") \/ (r.transport = "http" /\ ~r.malformed)

IsFailure(resp) == ~resp.success

\* C1: an invocation (WebSocket tool_call, POST /tools/{name}) of a tool that
\* is not in the catalog makes no backend call and ends at once with a
\* failure that names the tool as unknown: tool_error "Unknown tool: <name>",
\* or 404 for /tools/<name>.
C1_UnknownToolRejected ==
  \A i \in Slots :
    LET r == inv[i] IN
    (IsToolInvocation(r) /\ r.tool \notin Catalog) =>
      /\ r.calls = <<>>
      /\ r.pc = "done"
      /\ Len(r.out) = 1
      /\ IsFailure(r.out[1])
      /\ \/ r.transport = "ws" /\ r.out[1].type = "tool_error"
            /\ r.out[1].text = "Unknown tool: " \o r.tool
         \/ r.transport = "http" /\ r.out[1].status = 404
            /\ r.out[1].text = "Cannot POST /tools/" \o r.tool

C1_Witness ==
  \E i \in Slots :
    /\ inv[i].transport = "ws" /\ inv[i].type = "tool_call"
    /\ inv[i].tool = "nope" /\ inv[i].hasBody
    /\ inv[i].pc = "done"

\* the parameters a route of the API checks for
ApiRequired(route) == IF route = "chat" THEN {"model", "messages"} ELSE {"model", "prompt"}

RequiredOf(r) ==
  IF r.transport = "api" THEN ApiRequired(r.tool)
  ELSE UNION {toolDefinitions[k].required :
                k \in {j \in 1..Len(toolDefinitions) : toolDefinitions[j].name = r.tool}}

\* the request carries parameters, and a required one is not among them
LacksRequired(r) ==
  /\ r.hasBody
  /\ (IsToolInvocation(r) /\ r.tool \in Catalog) \/ r.transport = "api"
  /\ \E f \in RequiredOf(r) : r.p[f].t = "undefined"

\* C2: an invocation that lacks a required parameter makes no backend call
\* and ends with an InvalidParameters failure (400 on HTTP, a tool_error on
\* the WebSocket), on the HTTP and the WebSocket paths alike.
C2_MissingRequiredRejected ==
  \A i \in Slots :
    LET r == inv[i] IN
    LacksRequired(r) =>
      /\ r.calls = <<>>
      /\ r.pc = "done"
      /\ Len(r.out) = 1
      /\ IsFailure(r.out[1])
      /\ r.transport \in {"http", "api"} => r.out[1].status = 400

\* GeminiAPI.generateContent runs for the stdio tool ask_gemini
IsGenerateContent(r) == r.transport = "stdio" /\ r.tool = "ask_gemini"

\* the backend fails with status 429 twice and then succeeds
Fails429TwiceThenSucceeds(calls) ==
  \A k \in 1..Len(calls) :
    \/ calls[k] = Pending
    \/ k \in {1, 2} /\ calls[k] = Fail(429)
    \/ k = 3 /\ calls[k].ok

\* C3: with a backend that fails with 429 twice and then succeeds, the
\* invocation ends only after exactly 3 backend calls (2 retries), with the
\* third call's text as its result, and exactly 2 backoff sleeps; each call
\* after the first is preceded by exactly one sleep.
C3_RetryTwiceThenSuccess ==
  \A i \in Slots :
    LET r == inv[i] IN
    (IsGenerateContent(r) /\ Fails429TwiceThenSucceeds(r.calls)) =>
      /\ r.pc = "done" =>
           /\ Len(r.calls) = 3
           /\ r.retries = 2
           /\ Len(r.delays) = 2
           /\ r.out = <<Resp("content", 0, 0, TRUE, r.calls[3].text)>>
      /\ r.pc = "awaiting" => Len(r.delays) = Len(r.calls) - 1
      /\ r.pc = "sleeping" => Len(r.delays) = Len(r.calls)

C3_Witness ==
  \E i \in Slots :
    /\ IsGenerateContent(inv[i]) /\ inv[i].pc = "done"
    /\ inv[i].calls = <<Fail(429), Fail(429), Ok("4")>>

\* a status the retry policy names: 429, or 500..599
RetryableStatus(s) == s = 429 \/ (500 <= s /\ s <= 599)

\* C4: in GeminiAPI.generateContent a failure whose status is neither 429
\* nor 5xx, at whichever attempt, is the last backend call: the invocation
\* ends at once with that failure and without a sleep after it; so every
\* call that was followed by another one failed with 429 or 5xx.
C4_NonRetryableEndsAtOnce ==
  \A i \in Slots :
    LET r == inv[i] IN
    IsGenerateContent(r) =>
      \A k \in 1..Len(r.calls) :
        (r.calls[k] # Pending /\ ~r.calls[k].ok /\ ~RetryableStatus(r.calls[k].status)) =>
          /\ k = Len(r.calls)
          /\ r.pc = "done"
          /\ Len(r.delays) = k - 1
          /\ r.out = <<Resp("content", 0, 0, TRUE,
                            "Error: Failed to get response from Gemini: "
                              \o r.calls[k].text)>>

C4_Witness ==
  \E i \in Slots :
    /\ IsGenerateContent(inv[i]) /\ inv[i].pc = "done"
    /\ inv[i].calls = <<Fail(500), Fail(400)>>

\* C5: no generateContent invocation makes more than 3 backend calls, and
\* with a backend that always fails with status 500 it makes exactly 3 and
\* ends in failure.
C5_ExhaustionAfterThreeCalls ==
  \A i \in Slots :
    LET r == inv[i] IN
    IsGenerateContent(r) =>
      /\ Len(r.calls) <= 3
      /\ (r.pc = "done" /\ \A k \in 1..Len(r.calls) : r.calls[k] = Fail(500)) =>
           /\ Len(r.calls) = 3
           /\ Len(r.out) = 1
           /\ r.out[1].text = "Error: Failed to get response from Gemini: " \o Fail(500).text

C5_Witness ==
  \E i \in Slots :
    /\ IsGenerateContent(inv[i]) /\ inv[i].pc = "done"
    /\ inv[i].calls = <<Fail(500), Fail(500), Fail(500)>>

\* the invocation calls the backend for a tool
IsBackendTool(r) ==
  \/ r.transport = "stdio"
  \/ IsToolInvocation(r) /\ r.tool \in Catalog

\* C6: for every tool and transport, an invocation that ends after a backend
\* failure with status 429 or 5xx has made 3 backend calls (the failure was
\* retried up to 3 attempts).
C6_EveryBackendCallRetried ==
  \A i \in Slots :
    LET r == inv[i]
        n == Len(r.calls)
    IN
    (IsBackendTool(r) /\ r.pc = "done" /\ n > 0) =>
      ((~r.calls[n].ok /\ RetryableStatus(r.calls[n].status)) => n = 3)

\* C7: when generateContent has exhausted its retries on 429/5xx failures,
\* the failure it returns carries the message "Maximum retries exceeded",
\* which no non-retryable failure carries.
C7_ExhaustionIsDistinctFailure ==
  \A i \in Slots :
    LET r == inv[i]
        n == Len(r.calls)
    IN
    (IsGenerateContent(r) /\ r.pc = "done" /\ n = 3
       /\ ~r.calls[n].ok /\ RetryableStatus(r.calls[n].status)) =>
      r.out = <<Resp("content", 0, 0, TRUE,
                     "Error: Failed to get response from Gemini: "
                       \o "Maximum retries exceeded")>>

\* the responses sent on the socket for request id, as tool_result / tool_error
ToolResponsesFor(id) ==
  {k \in 1..Len(ws.out) :
     ws.out[k].type \in {"tool_result", "tool_error"} /\ ws.out[k].id = id}

\* C8: a WebSocket tool_call gets exactly one response, a tool_result or a
\* tool_error carrying its id, sent when the invocation ends and not before.
C8_ExactlyOneToolResponse ==
  \A i \in Slots :
    LET r == inv[i] IN
    (r.transport = "ws" /\ r.type = "tool_call") =>
      /\ r.pc # "done" => (r.out = <<>> /\ ToolResponsesFor(r.id) = {})
      /\ r.pc = "done" =>
           /\ Len(r.out) = 1
           /\ r.out[1].type \in {"tool_result", "tool_error"}
           /\ r.out[1].id = r.id
           /\ Cardinality(ToolResponsesFor(r.id)) = 1
           /\ \A k \in ToolResponsesFor(r.id) : ws.out[k] = r.out[1]
           /\ r.out[1].type = "tool_result" <=>
                (Len(r.calls) = 1 /\ r.calls[1].ok)

C8_Witness ==
  \E i \in Slots :
    /\ inv[i].transport = "ws" /\ inv[i].type = "tool_call" /\ inv[i].id = 2
    /\ inv[i].pc = "done" /\ Len(inv[i].calls) = 1 /\ ~inv[i].calls[1].ok

\* the client of the invocation has disconnected
Disconnected(i) ==
  inv[i].gone \/ (inv[i].transport = "ws" /\ ws.state = "closed")

\* C9: once the client has disconnected before the invocation has ended, no
\* step issues a backend call for it and no backoff sleep runs on into a retry.
C9_NoBackendCallAfterDisconnect ==
  [][\A i \in Slots :
       (Disconnected(i) /\ inv[i].pc \notin {"idle", "done"}) =>
         Len(inv'[i].calls) <= Len(inv[i].calls)]_vars

\* the events of a stream that yields chunks and ends
TextEvents(chunks) ==
  [k \in 1..Len(chunks) |->
     Resp("write", 0, 200, TRUE,
          IF chunks[k] = "a" THEN "data: {\"text\":\"a\"}\n\n"
          ELSE "data: {\"text\":\"b\"}\n\n")]

DoneEvent == Resp("write", 0, 200, TRUE, "data: {\"done\":true}\n\n")

\* C10: for a stream that yields c1..cn and ends without failing, the events
\* written are one text event per chunk, in chunk order, then exactly one
\* done event, with which the response is ended; the events are a function
\* of the chunk sequence.
C10_StreamEventsInOrderThenDone ==
  \A i \in Slots :
    LET r == inv[i] IN
    (r.transport = "api" /\ r.tool = "generate/stream" /\ r.stream \in {"open", "end"}) =>
      /\ r.stream = "open" => (r.out = TextEvents(r.chunks) /\ ~r.ended /\ r.pc = "streaming")
      /\ r.stream = "end" =>
           (r.out = TextEvents(r.chunks) \o <<DoneEvent>> /\ r.ended /\ r.pc = "done")

C10_Witness ==
  \E i \in Slots :
    /\ inv[i].tool = "generate/stream" /\ inv[i].stream = "end"
    /\ inv[i].chunks = <<"a", "b">>
    /\ inv[i].pc = "done"

\* the invocation serves POST /api/generate/stream
IsStream(r) == r.transport = "api" /\ r.tool = "generate/stream"

\* C11: when the backend stream fails after at least one chunk event was
\* written, the response ends with the chunk events followed by one final
\* event that reports the failure.
C11_MidStreamFailureEndsWithErrorEvent ==
  \A i \in Slots :
    LET r == inv[i] IN
    (IsStream(r) /\ r.stream = "error" /\ Len(r.chunks) > 0) =>
      /\ r.pc = "done"
      /\ Len(r.out) = Len(r.chunks) + 1
      /\ IsFailure(r.out[Len(r.out)])

\* the response is closed: res.end() was called, or the connection was
\* destroyed under it
Closed(r) == r.ended \/ r.destroyed

SchemaOf(tool) ==
  toolDefinitions[CHOOSE k \in 1..Len(toolDefinitions) : toolDefinitions[k].name = tool]

\* every required parameter is present, and a parameter has a type other
\* than the declared one or the model is outside the schema's enum
ViolatesSchema(r) ==
  /\ r.hasBody
  /\ IsToolInvocation(r) /\ r.tool \in Catalog
  /\ \A f \in SchemaOf(r.tool).required : r.p[f].t # "undefined"
  /\ \/ \E f \in SchemaOf(r.tool).required : r.p[f].t # SchemaOf(r.tool).types[f]
     \/ r.p.model.t = "string" /\ r.p.model.s \notin SchemaOf(r.tool).enum

\* C13: an invocation on the HTTP or the WebSocket path whose parameters are
\* all present but violate the tool's schema (wrong type, model outside the
\* enum) makes no backend call and ends at once in a failure.
C13_SchemaViolationRejected ==
  \A i \in Slots :
    LET r == inv[i] IN
    ViolatesSchema(r) =>
      /\ r.calls = <<>>
      /\ r.pc = "done"
      /\ Len(r.out) = 1
      /\ IsFailure(r.out[1])

\* the request is for a tool route that setupMcpTools registers
IsToolRoute(r) == r.transport = "http" /\ r.tool \in Catalog

\* C14: a POST /tools/ask_gemini or /tools/chat_with_gemini request gets
\* exactly one response, with status 200 and success, or 400 or 500 and no
\* success; 400 exactly when the request made no backend call (validation
\* failed), 500 exactly when its backend call failed, 200 exactly when its
\* backend call succeeded.
C14_HttpToolStatuses ==
  \A i \in Slots :
    LET r == inv[i] IN
    IsToolRoute(r) =>
      /\ r.pc # "done" => r.out = <<>>
      /\ r.pc = "done" =>
           /\ Len(r.out) = 1
           /\ r.out[1].type = "json"
           /\ r.out[1].status \in {200, 400, 500}
           /\ r.out[1].success <=> r.out[1].status = 200
           /\ r.out[1].status = 400 <=> r.calls = <<>>
           /\ r.out[1].status = 500 <=> (Len(r.calls) = 1 /\ ~r.calls[1].ok)
           /\ r.out[1].status = 200 <=> (Len(r.calls) = 1 /\ r.calls[1].ok)

\* a WebSocket message handler is waiting for its backend call
WsHandlerInFlight ==
  \E i \in Slots : inv[i].transport = "ws" /\ inv[i].pc # "done"

\* C15: no failure ends the connection or the process.  On a WebSocket every
\* inbound message, whatever it is and however its backend call ends, is
\* answered with one message (so the replies sent, after server_info, are as
\* many as the messages handled), and no step of a handler takes the socket
\* out of the open state: only the client's close does.  On stdio every tool
\* handler that has ended has returned one normal result, {content: [text]},
\* for every outcome of the backend.
C15_NoFailureEndsConnection ==
  /\ [](ws.state # "none" =>
          Len(ws.out) = 1 + ws.n - (IF WsHandlerInFlight THEN 1 ELSE 0))
  /\ [](\A i \in Slots :
          (inv[i].transport = "stdio" /\ inv[i].pc = "done") =>
            (Len(inv[i].out) = 1 /\ inv[i].out[1].type = "content"))
  /\ [][(ws.state = "open" /\ ws'.state # "open") => inv' = inv]_vars

\* a tool_call whose backend call failed was answered, the socket is open
\* and the next message on it was answered too
C15_Witness ==
  /\ ws.state = "open"
  /\ Len(ws.out) = 3
  /\ ws.out[2].type = "tool_error" /\ ws.out[2].id = 1
  /\ ws.out[3].type = "error"
  /\ \E i \in Slots : inv[i].transport = "ws" /\ inv[i].type = "malformed"

\* the invocation has ended after its last backend call failed
EndedInBackendFailure(r) ==
  /\ r.pc = "done"
  /\ r.calls # <<>>
  /\ ~r.calls[Len(r.calls)].ok

\* C16: a response that reports a failure carries, next to its message, a
\* machine-checkable mark of the failure (a type, a success flag, a status),
\* on every transport: the response of an invocation whose backend call
\* failed differs from a success in more than its text.
C16_FailureIsMachineCheckable ==
  \A i \in Slots :
    LET r == inv[i] IN
    (EndedInBackendFailure(r) /\ r.stream = "none") =>
      /\ Len(r.out) = 1
      /\ IsFailure(r.out[1])
      /\ r.out[1].text # ""

\* the calls of an invocation that failed with 429 or 5xx
RetryableFailures(r) ==
  {k \in 1..Len(r.calls) :
     r.calls[k] # Pending /\ ~r.calls[k].ok /\ RetryableStatus(r.calls[k].status)}

\* C17: with several generateContent invocations in flight, each counts its
\* own failures only and has its own 3 attempts: its retries is the number of
\* its own retryable failures, and it ends in a retryable failure only at
\* its third call, whatever the others did.  While one sleeps in backoff,
\* another that awaits the backend can take its answer (and so complete), and
\* a new one can start.
C17_RetryStatePerInvocation ==
  \A i \in Slots :
    LET r == inv[i] IN
    IsGenerateContent(r) =>
      /\ r.retries = Cardinality(RetryableFailures(r))
      /\ Len(r.calls) <= maxRetries
      /\ (r.pc = "done" /\ Len(r.calls) \in RetryableFailures(r)) =>
           Len(r.calls) = maxRetries
      /\ r.pc = "sleeping" =>
           \A j \in Slots \ {i} :
             /\ inv[j].pc = "awaiting" => ENABLED StdioAskReturnConcurrent(j)
             /\ (inv[j].pc = "idle" /\ \A k \in Slots : k < j => inv[k].pc # "idle")
                  => ENABLED StdioAskConcurrent(j)

\* one invocation sleeps after two failures while another has ended in
\* success at its third attempt
C17_Witness ==
  \E i \in Slots : \E j \in Slots \ {i} :
    /\ IsGenerateContent(inv[i]) /\ inv[i].pc = "sleeping"
    /\ inv[i].calls = <<Fail(429), Fail(500)>>
    /\ inv[i].delays = <<1500, 3000>>
    /\ IsGenerateContent(inv[j]) /\ inv[j].pc = "done"
    /\ inv[j].calls = <<Fail(429), Fail(429), Ok("4")>>

\* C18 as stated: the exponent of the delay is the attempt counter before
\* its increment, so the delay before the first retry lies in [500, 1000] ms
\* and the delay before the second retry in [1000, 2000] ms.
C18_DelayFromCounterBeforeIncrement ==
  \A i \in Slots :
    LET r == inv[i] IN
    IsGenerateContent(r) =>
      /\ Len(r.delays) >= 1 => (500 <= r.delays[1] /\ r.delays[1] <= 1000)
      /\ Len(r.delays) >= 2 => (1000 <= r.delays[2] /\ r.delays[2] <= 2000)

\* C18, amended: the exponent is retries after its increment (1 at the first
\* failure): the k-th delay of an invocation lies in
\* [baseDelay * 2^k / 2, baseDelay * 2^k], which is [1000, 2000] ms before
\* the first retry and [2000, 4000] ms before the second; a delay is only
\* computed with attempts remaining, so there are at most two.
C18_DelayFromCounterAfterIncrement ==
  \A i \in Slots :
    LET r == inv[i] IN
    IsGenerateContent(r) =>
      /\ Len(r.delays) < maxRetries
      /\ r.pc = "sleeping" => (Len(r.delays) = r.retries /\ r.retries < maxRetries)
      /\ \A k \in 1..Len(r.delays) :
           /\ (baseDelay * Pow2(k)) \div 2 <= r.delays[k]
           /\ r.delays[k] <= baseDelay * Pow2(k)
      /\ Len(r.delays) >= 1 => (1000 <= r.delays[1] /\ r.delays[1] <= 2000)
      /\ Len(r.delays) >= 2 => (2000 <= r.delays[2] /\ r.delays[2] <= 4000)

\* an invocation has slept twice, the first time for more than 1000 ms and
\* the second time for more than 2000 ms
C18_Witness ==
  \E i \in Slots :
    /\ IsGenerateContent(inv[i])
    /\ inv[i].delays = <<1500, 3000>>

EndedInBackendSuccess(r) ==
  /\ r.pc = "done"
  /\ r.calls # <<>>
  /\ r.calls[Len(r.calls)].ok

\* C20: when the backend call of a tool invocation succeeds, the answer
\* carries exactly the text the backend produced: {success: true, result:
\* text} with status 200 on POST /tools/{name}, and {type: "tool_result",
\* id: the request's id, result: text} on the WebSocket, where it is the
\* message sent on the socket; for ask_gemini and chat_with_gemini alike.
C20_SuccessPayloadIsBackendText ==
  \A i \in Slots :
    LET r == inv[i]
        text == r.calls[Len(r.calls)].text
    IN
    (IsToolInvocation(r) /\ EndedInBackendSuccess(r)) =>
      /\ r.tool \in Catalog
      /\ Len(r.calls) = 1
      /\ r.transport = "http" => r.out = <<Resp("json", 0, 200, TRUE, text)>>
      /\ r.transport = "ws" =>
           /\ r.out = <<Resp("tool_result", r.id, 0, TRUE, text)>>
           /\ ws.out[Len(ws.out)] = Resp("tool_result", r.id, 0, TRUE, text)

\* chat_with_gemini on the WebSocket, answered "ok" by the backend
C20_Witness ==
  \E i \in Slots :
    /\ inv[i].transport = "ws" /\ inv[i].type = "tool_call"
    /\ inv[i].tool = "chat_with_gemini" /\ inv[i].id = 1
    /\ inv[i].p.conversation = Arr(<<[role |-> "user", content |-> "hi"]>>)
    /\ inv[i].pc = "done"
    /\ inv[i].calls = <<Ok("ok")>>
    /\ inv[i].out = <<Resp("tool_result", 1, 0, TRUE, "ok")>>

\* C21: on a WebSocket connection the first message the server sends is
\* server_info, whose capability list is the list of the catalog's tool
\* names; it is sent before any answer to a client message and never again
\* on that connection.
C21_ServerInfoFirstAndOnce ==
  ws.state # "none" =>
    /\ Len(ws.out) >= 1
    /\ ws.out[1].type = "server_info"
    /\ ws.out[1].text = JoinNames(ToolNames)
    /\ \A k \in 2..Len(ws.out) : ws.out[k].type # "server_info"

\* a connection on which two client messages were answered after server_info
C21_Witness ==
  /\ ws.state = "open"
  /\ Len(ws.out) = 3
  /\ ws.out[1].type = "server_info"
  /\ ws.out[2].type = "tools"
  /\ ws.out[3].type = "tool_result"

\* the handler of a WebSocket message of the given type has ended
WsHandled(r, types) == r.transport = "ws" /\ r.type \in types /\ r.pc = "done"

\* C22: a WebSocket message (a JSON object) whose type is neither get_tools
\* nor tool_call is answered at once with exactly one response, an error
\* that names the type as unknown, and makes no backend call; a get_tools
\* message is answered at once with exactly one response, the catalog, and
\* makes no backend call.
C22_UnknownTypeAndGetTools ==
  /\ \A i \in Slots :
       inv[i].transport = "ws" /\ inv[i].type \in {"other", "get_tools"}
         => (inv[i].pc = "done" /\ inv[i].calls = <<>>)
  /\ \A i \in Slots :
       WsHandled(inv[i], {"other"}) =>
         /\ inv[i].out = <<Resp("error", 0, 0, FALSE, "Unknown message type: other")>>
         /\ ws.out[Len(ws.out)] = inv[i].out[1]
         /\ Len(ws.out) = 1 + ws.n
  /\ \A i \in Slots :
       WsHandled(inv[i], {"get_tools"}) =>
         /\ inv[i].out = <<Resp("tools", 0, 0, TRUE, "ask_gemini,chat_with_gemini")>>
         /\ ws.out[Len(ws.out)] = inv[i].out[1]
         /\ Len(ws.out) = 1 + ws.n

\* a message of an unknown type was answered after a get_tools message
C22_Witness ==
  /\ ws.state = "open" /\ ws.n = 2
  /\ ws.out[2].type = "tools"
  /\ \E i \in Slots : WsHandled(inv[i], {"other"})

RegisteredNames == <<"ask_gemini", "chat_with_gemini">>

IsGetTools(r) == r.transport = "get" /\ r.tool = "/tools" /\ r.pc = "done"

\* C24: every answer to a discovery request, a GET /tools or a get_tools on
\* any connection, lists exactly the registered tool names in registration
\* order, whatever handlers are in flight or have run in between
C24_DiscoveryAnswersRegisteredNames ==
  /\ \A i \in Slots :
       IsGetTools(inv[i]) =>
         inv[i].out = <<Resp("json", 0, 200, TRUE, JoinNames(RegisteredNames))>>
  /\ \A c \in Conns : \A k \in 1..Len(conns[c].out) :
       conns[c].out[k].type = "tools" =>
         conns[c].out[k].text = JoinNames(RegisteredNames)

\* a GET /tools is answered while a tool_call awaits the backend, and a
\* get_tools was answered on a connection
C24_Witness ==
  /\ \E i, j \in Slots :
       /\ IsGetTools(inv[i])
       /\ inv[j].pc = "awaiting" /\ inv[j].transport = "ws"
  /\ \E c \in Conns : \E k \in 1..Len(conns[c].out) : conns[c].out[k].type = "tools"

(***************************************************************************)
(* Several WebSocket connections.                                          *)
(***************************************************************************)
IsToolReply(m) == m.type \in {"tool_result", "tool_error"}

\* the ids of the messages connection c has sent
SentIds(c) == {MsgId(c, k) : k \in 1..conns[c].n}

\* what was sent on connection c answers messages of connection c: a tool
\* response carries the id of one of them, and there are no more replies
\* than messages
RepliesOnOwnSocket(c) ==
  /\ Len(conns[c].out) - 1 <= conns[c].n
  /\ \A k \in 1..Len(conns[c].out) :
       IsToolReply(conns[c].out[k]) => conns[c].out[k].id \in SentIds(c)

\* a handler awaiting the backend for connection d keeps no other
\* connection waiting: a message of c is taken as it arrives, and a settled
\* call of c is answered
NotDelayedBy(c, d) ==
  (\E j \in Slots : inv[j].pc = "awaiting" /\ inv[j].conn = d) =>
    /\ \A i \in Slots :
         (conns[c].state = "open" /\ ConnMsgs < MaxWsMsgs /\ FreeSlot(i))
           => ENABLED ConnMessage(c, i)
    /\ \A i \in Slots :
         (inv[i].pc = "awaiting" /\ inv[i].conn = c) => ENABLED ConnToolReturn(i)

\* a step that sends on connection c sends what the handler of a message of
\* c answers, and sends on no other connection
SendsOnOneSocket(c) ==
  conns'[c].out # conns[c].out =>
    /\ \A d \in Conns \ {c} : conns'[d].out = conns[d].out
    /\ \E m \in {WsReply("get_tools"), WsReply("malformed")}
              \cup {ToolResponse([k |-> "throw", r |-> [id |-> n], text |-> "Unknown tool: gpt"]) :
                      n \in SentIds(c) \cup {MsgId(c, conns[c].n + 1)}}
              \cup {ToolResponse(executeToolRequestSettle(inv[i], o)) :
                      i \in {j \in Slots : inv[j].conn = c /\ inv[j].pc = "awaiting"},
                      o \in ConnOutcomes} :
         conns'[c].out = Append(conns[c].out, m)

C25_Always ==
  \A c \in Conns :
    /\ RepliesOnOwnSocket(c)
    /\ \A d \in Conns \ {c} : NotDelayedBy(c, d)

C25_Step == \A c \in Conns : conns[c].state # "none" => SendsOnOneSocket(c)

\* C25: connections are independent: a response is sent only on the socket
\* whose message it answers, and a tool_call that is awaiting the backend or
\* fails on one socket neither holds up nor alters what is sent on another
C25_ConnectionsIndependent == []C25_Always /\ [][C25_Step]_vars

\* a tool_call of connection a awaits the backend, and a tool_call of
\* connection b has been answered on b
C25_Witness ==
  /\ inv[1].pc = "awaiting" /\ inv[1].conn = "a"
  /\ inv[2].pc = "done" /\ inv[2].conn = "b" /\ inv[2].type = "tool_call"
  /\ conns["a"].out = <<catalog.server>>
  /\ Len(conns["b"].out) = 2 /\ conns["b"].out[2].id = MsgId("b", 1)

(***************************************************************************)
(* The order of the responses on stdio.                                    *)
(***************************************************************************)
\* the handler of request r has not returned its result yet
Unanswered(r) == r.transport = "stdio" /\ r.pc \in {"awaiting", "sleeping"}

\* the result of request r has been returned for writing
Answered(r) == r.transport = "stdio" /\ r.pc = "done"

\* C26: on stdio the response to an earlier tool request is written before
\* the response to a later one: no request is answered while a request that
\* arrived before it is still awaiting the backend or sleeping before a retry
C26_ResponsesInRequestOrder ==
  \A i, j \in Slots :
    (Unanswered(inv[i]) /\ Answered(inv[j])) => inv[j].id < inv[i].id

(***************************************************************************)
(* The history a chat call sends.                                          *)
(***************************************************************************)
\* a chatWithHistory call of invocation r has reached the backend
IsChatCall(r) ==
  /\ r.calls # <<>>
  /\ \/ r.transport \in {"stdio", "http", "ws"} /\ r.tool = "chat_with_gemini"
     \/ r.transport = "api" /\ r.tool = "chat"

\* the history and the new message the caller gave chatWithHistory
HistoryOf(r) ==
  IF r.transport = "api"
    THEN SubSeq(r.p.messages.a, 1, Len(r.p.messages.a) - 1)
    ELSE r.p.conversation.a

MessageOf(r) ==
  IF r.transport = "api"
    THEN r.p.messages.a[Len(r.p.messages.a)].content
    ELSE r.p.message.s

\* what the backend was sent is the history, turn by turn, and then one user
\* turn with the new message
SendsHistoryThenMessage(r) ==
  LET h == HistoryOf(r) IN
  /\ Len(r.contents) = Len(h) + 1
  /\ \A k \in 1..Len(h) :
       r.contents[k] = [role |-> h[k].role, text |-> h[k].content]
  /\ r.contents[Len(h) + 1] = UserTurn(MessageOf(r))

\* the arguments of an invocation stay as the caller gave them
ArgumentsKept(i) ==
  (inv[i].pc # "idle" /\ inv'[i].pc # "idle") => inv'[i].p = inv[i].p

MCP_AUTH_ENABLED == TRUE

\* invocation r came over the network without the matching bearer token
Unauthenticated(r) ==
  r.transport = "ws" /\ r.conn \in Conns /\ r.bearer # MCP_AUTH_SECRET

\* C28: with authentication enabled, a message that does not carry the
\* matching bearer token causes no backend call and receives no tool result
C28_UnauthenticatedRejected ==
  MCP_AUTH_ENABLED =>
    \A i \in Slots :
      Unauthenticated(inv[i]) =>
        /\ inv[i].calls = <<>>
        /\ \A k \in 1..Len(inv[i].out) : inv[i].out[k].type # "tool_result"

(***************************************************************************)
(* The model-handle cache of GeminiAPI.                                    *)
(***************************************************************************)
\* the handles created for model id m
HandlesFor(m) == {k \in 1..Len(models) : models[k] = m}

\* an invocation holds the handle that was created for the model it names
UsesOwnHandle(r) ==
  (r.transport = "stdio" /\ r.pc # "idle") =>
    /\ r.handle \in 1..Len(models)
    /\ models[r.handle] = r.p.model.s

\* the cache keeps every entry it has: what it held is the beginning of what
\* it holds
CacheOnlyGrows ==
  /\ Len(models') >= Len(models)
  /\ SubSeq(models', 1, Len(models)) = models

\* C29: under every interleaving of invocations at most one handle is
\* created for a model id, every invocation uses the handle created for the
\* model id it names, and the cache only grows
C29_HandleCacheSafe ==
  /\ [](\A m \in {c.s : c \in ConcModels} : Cardinality(HandlesFor(m)) <= 1)
  /\ [](\A i \in Slots : UsesOwnHandle(inv[i]))
  /\ [][CacheOnlyGrows]_vars

\* two calls for the model whose handle was created second are in flight at
\* once, one of them after a failed attempt
C29_Witness ==
  /\ Len(models) = 2
  /\ inv[1].pc = "awaiting" /\ inv[2].pc = "awaiting"
  /\ inv[1].handle = 2 /\ inv[2].handle = 2
  /\ inv[1].retries + inv[2].retries >= 1

(***************************************************************************)
(* The catalog after startup.                                              *)
(***************************************************************************)
\* the tool definitions and the server metadata as they are built at startup
CatalogAtStartup == [tools |-> toolDefinitions, server |-> serverMetadata]

\* C30: the catalog is read-only after startup: no tool invocation, discovery
\* request, malformed message, connection or disconnection adds, removes or
\* changes a tool definition or the server metadata
C30_CatalogReadOnly ==
  /\ [](catalog = CatalogAtStartup)
  /\ [][catalog' = catalog]_vars

\* a connection was opened, has had a discovery request and a tool_call
\* answered, and was closed
C30_Witness ==
  /\ ws.state = "closed"
  /\ Len(ws.out) = 3
  /\ \E k \in 2..3 : ws.out[k].type = "tools"
  /\ \E k \in 2..3 : IsToolReply(ws.out[k])

(***************************************************************************)
(* GeminiAPI.callFunction.                                                 *)
(***************************************************************************)
IsCallFunction(r) == r.transport = "stdio" /\ r.tool = "gemini_function_call"

\* the two shapes callFunction returns, as the handler serialises them
Descriptor == "{\"functionName\":\"f\",\"functionArgs\":{}}"

TextShape(t) == "{\"text\":\"" \o t \o "\"}"

\* what the handler answers when callFunction throws
IsFailureText(t) ==
  \E o \in Outcomes \cup FunctionOutcomes :
    t \in {"Error: Failed to call function with Gemini: " \o o.text,
           "Error: Failed to call function with Gemini: Unexpected token"}

InGenerateContent(r) == IsGenerateContent(r) /\ r.pc \in {"awaiting", "sleeping"}

\* the sleeps of an invocation lie between its backend calls: as many as
\* calls while it sleeps, one fewer while it awaits and when it has ended
SleepsBetweenCalls(r) ==
  /\ Len(r.calls) \in 1..3
  /\ Len(r.delays) = IF r.pc = "sleeping" THEN Len(r.calls) ELSE Len(r.calls) - 1

\* C32: every generateContent invocation ends when each backend call
\* returns; it makes between 1 and 3 backend calls, sleeps once between two
\* calls and never after its last call
C32_GenerateContentTerminates ==
  /\ [](\A i \in Slots :
          (IsGenerateContent(inv[i]) /\ inv[i].pc # "idle") => SleepsBetweenCalls(inv[i]))
  /\ \A i \in Slots : InGenerateContent(inv[i]) ~> (inv[i].pc = "done")

\* an invocation has ended in failure at its third call, after two sleeps
C32_Witness ==
  \E i \in Slots :
    /\ IsGenerateContent(inv[i]) /\ inv[i].pc = "done"
    /\ Len(inv[i].calls) = 3 /\ ~inv[i].calls[3].ok
    /\ Len(inv[i].delays) = 2

(***************************************************************************)
(* Failures without a status.                                              *)
(***************************************************************************)
\* the backend call failed with an error that has no status field
FailedWithoutStatus(o) == ~o.ok /\ o.status = 0

\* C33: a backend failure that carries no status is not retried by
\* generateContent: the call that met it is the last of the invocation, no
\* sleep follows it, and the failure is what the invocation ends with
C33_NoStatusNotRetried ==
  \A i \in Slots :
    LET r == inv[i] IN
    IsGenerateContent(r) =>
      \A k \in 1..Len(r.calls) :
        FailedWithoutStatus(r.calls[k]) =>
          /\ k = Len(r.calls)
          /\ r.pc = "done"
          /\ Len(r.delays) = k - 1
          /\ r.retries = k - 1
          /\ r.out = <<Content("Error: Failed to get response from Gemini: "
                                 \o r.calls[k].text)>>

\* a failure without a status ended an invocation at its second call, after
\* one retried failure
C33_Witness ==
  \E i \in Slots :
    /\ IsGenerateContent(inv[i]) /\ inv[i].pc = "done"
    /\ Len(inv[i].calls) = 2
    /\ inv[i].calls[1] = Fail(429)
    /\ FailedWithoutStatus(inv[i].calls[2])

(***************************************************************************)
(* Several messages on one WebSocket.                                      *)
(***************************************************************************)
\* a tool_call of connection c awaits the backend
HasPending(c) == \E j \in Slots : inv[j].pc = "awaiting" /\ inv[j].conn = c

\* the tool responses sent on connection c
ToolReplies(c) == {k \in 1..Len(conns[c].out) : IsToolReply(conns[c].out[k])}

\* C34: on one WebSocket a message is taken while earlier tool_calls of the
\* same socket still await the backend, so a later message can be answered
\* first; a tool response is matched to its request by its id alone: it
\* carries the id of a tool_call of the socket, and no two carry the same
C34_NotInRequestOrder ==
  \A c \in Conns :
    /\ HasPending(c) =>
         \A i \in Slots :
           (conns[c].state = "open" /\ ConnMsgs < MaxWsMsgs /\ FreeSlot(i))
             => ENABLED ConnMessage(c, i)
    /\ \A k \in ToolReplies(c) : conns[c].out[k].id \in SentIds(c)
    /\ \A k, l \in ToolReplies(c) : conns[c].out[k].id = conns[c].out[l].id => k = l

\* the second tool_call of a connection has its result while the first
\* still awaits the backend
C34_Witness ==
  \E c \in Conns : \E j \in Slots :
    /\ inv[j].pc = "awaiting" /\ inv[j].conn = c /\ inv[j].id = MsgId(c, 1)
    /\ Len(conns[c].out) = 2
    /\ conns[c].out[2].type = "tool_result" /\ conns[c].out[2].id = MsgId(c, 2)

(***************************************************************************)
(* Advertised and dispatchable tools.                                      *)
(***************************************************************************)
\* the names the catalog lists, as a discovery answer carries them
Advertised == JoinNames(NamesOf(catalog.tools))

AdvertisedSet == {catalog.tools[k].name : k \in 1..Len(catalog.tools)}

\* the answers of server_info, get_tools, GET /tools and GET /info
DiscoveryAnswersAgree ==
  /\ \A k \in 1..Len(ws.out) :
       ws.out[k].type \in {"server_info", "tools"} => ws.out[k].text = Advertised
  /\ \A i \in Slots :
       (inv[i].transport = "get" /\ inv[i].tool \in {"/tools", "/info"}) =>
         inv[i].out[1].text = Advertised

\* the request named a tool that the server does not dispatch
RefusedAsUnknown(r) ==
  \/ r.transport = "ws" /\ r.out[1] = Resp("tool_error", r.id, 0, FALSE, "Unknown tool: " \o r.tool)
  \/ r.transport = "http" /\ r.out[1].type = "notfound"

\* C35: in the WebSocket/HTTP server the names that server_info, /info,
\* get_tools and GET /tools list are the same, and they are the names a
\* tool request is dispatched for: a request is refused as naming an unknown
\* tool exactly when its tool is not among them
C35_AdvertisedIsDispatchable ==
  /\ DiscoveryAnswersAgree
  /\ \A i \in Slots :
       LET r == inv[i] IN
       (/\ r.pc = "done"
        /\ \/ r.transport = "ws" /\ r.type = "tool_call"
           \/ r.transport = "http" /\ ~r.malformed)
         => (RefusedAsUnknown(r) <=> r.tool \notin AdvertisedSet)

\* a tool_call for the tool that only the stdio server registers was refused,
\* after the connection had its server_info
C35_Witness ==
  \E i \in Slots :
    /\ inv[i].pc = "done" /\ inv[i].transport = "ws" /\ inv[i].type = "tool_call"
    /\ inv[i].tool = "gemini_function_call"
    /\ RefusedAsUnknown(inv[i])
    /\ ws.out[1].text = Advertised

(***************************************************************************)
(* A stream that fails before its first chunk.                             *)
(***************************************************************************)
\* the backend call of the stream request was rejected
StreamRefused(r) == Len(r.calls) = 1 /\ r.calls[1] # Pending /\ ~r.calls[1].ok

\* the stream was obtained and threw before it yielded a chunk
StreamBrokeAtOnce(r) == r.stream = "error" /\ r.chunks = <<>>

\* the 500 envelope of the error middleware
IsErrorEnvelope(m) == m.type = "json" /\ m.status = 500 /\ ~m.success

\* C36: on POST /api/generate/stream the event-stream headers are set only
\* once the backend stream has been obtained, and nothing is sent before the
\* first chunk: when the backend fails before any chunk, the response is the
\* one 500 {success:false, error} envelope, with no text and no done event
C36_EarlyStreamFailureIsJson ==
  \A i \in Slots :
    LET r == inv[i] IN
    IsStream(r) =>
      /\ r.stream # "none" => (Len(r.calls) = 1 /\ r.calls[1].ok)
      /\ (r.pc = "awaiting" \/ (r.pc = "streaming" /\ r.chunks = <<>>)) =>
           (r.out = <<>> /\ ~r.headersSent)
      /\ (StreamRefused(r) \/ StreamBrokeAtOnce(r)) =>
           /\ r.pc = "done"
           /\ Len(r.out) = 1 /\ IsErrorEnvelope(r.out[1])
           /\ r.ended /\ ~r.destroyed

\* the backend refused the stream request with status 500
C36_Witness ==
  \E i \in Slots :
    /\ IsStream(inv[i]) /\ inv[i].calls = <<Fail(500)>>
    /\ inv[i].out = <<Resp("json", 0, 500, FALSE, Fail(500).text)>>

(***************************************************************************)
(* POST /api/chat.                                                         *)
(***************************************************************************)
IsApiChat(r) == r.transport = "api" /\ r.tool = "chat" /\ r.hasBody /\ ~r.malformed

\* the request passes "!model || !messages || !Array.isArray(messages)"
PassesChatCheck(r) == ~Falsy(r.p.model) /\ IsArray(r.p.messages)

\* C37: POST /api/chat with a non-empty messages array calls the backend
\* exactly once, with every message but the last as history, in order, and
\* then one user turn whose text is the content of the last message, whatever
\* the role of the last message
C37_ChatSplitsLastMessage ==
  \A i \in Slots :
    LET r == inv[i]
        msgs == r.p.messages.a
        n == Len(msgs)
    IN
    (IsApiChat(r) /\ PassesChatCheck(r) /\ n > 0 /\ r.pc # "idle") =>
      /\ Len(r.calls) = 1
      /\ Len(r.contents) = n
      /\ \A k \in 1..(n - 1) :
           r.contents[k] = [role |-> msgs[k].role, text |-> msgs[k].content]
      /\ r.contents[n] = [role |-> "user", text |-> msgs[n].content]

\* a chat whose last message declares the role model was sent with that
\* message as the user turn
C37_Witness ==
  \E i \in Slots :
    /\ IsApiChat(inv[i]) /\ inv[i].pc = "done"
    /\ Len(inv[i].p.messages.a) = 2 /\ Len(inv[i].calls) = 1
    /\ inv[i].p.messages.a[2].role = "model"
    /\ inv[i].contents[2] = [role |-> "user", text |-> "yo"]
    /\ inv[i].calls[1].ok

\* C38: POST /api/chat with an empty messages array passes the check of the
\* required fields, makes no backend call and ends with the 500
\* {success:false, error} envelope of the error middleware, not with the 400
\* of the validation
C38_EmptyMessagesIs500 ==
  \A i \in Slots :
    LET r == inv[i] IN
    (/\ IsApiChat(r) /\ PassesChatCheck(r) /\ r.p.messages.a = <<>>
     /\ r.pc # "idle") =>
      /\ r.pc = "done"
      /\ r.calls = <<>>
      /\ Len(r.out) = 1 /\ IsErrorEnvelope(r.out[1])
      /\ r.out[1].text = "Cannot read properties of undefined (reading 'content')"

\* a request with a model and an empty messages array has ended
C38_Witness ==
  \E i \in Slots :
    /\ IsApiChat(inv[i]) /\ inv[i].pc = "done"
    /\ inv[i].p.messages = Arr(<<>>)
    /\ inv[i].p.model = Str("gemini-2.0-flash")
    /\ inv[i].out[1].status = 500

====
